---- MODULE Spec2Model ----
(***************************************************************************)
(* couch_rs/src/document.rs: Document, TypedCouchDocument for Value,       *)
(* DocumentCollectionItem and DocumentCollection, as a state machine.      *)
(*                                                                         *)
(* A serde_json::Value is a tagged record: Null, Str(s), Num(n), Arr(a)    *)
(* with a a sequence of values, Obj(o) with o a function from the object's *)
(* keys to values.  Every action records in last the operation, its       *)
(* arguments, the state it was applied to and how it ended (out); an       *)
(* operation that unwinds keeps what it had written before the failure.    *)
(***************************************************************************)
EXTENDS Integers, Sequences, FiniteSets, TLC

VARIABLES document, value, collection, last

vars == <<document, value, collection, last>>

(* ------------------------------ bounds --------------------------------- *)

\* longest answer of the bulk fetch that populate awaits
MaxFetched == 2
\* most rows of a raw query result
MaxRows == 3
\* most documents handed to new_from_documents
MaxDocs == 2

(* ------------------------- serde_json::Value --------------------------- *)

Null == [t |-> "null"]

Str(s) == [t |-> "str", s |-> s]

Num(n) == [t |-> "num", n |-> n]

Arr(a) == [t |-> "arr", a |-> a]

Obj(o) == [t |-> "obj", o |-> o]

EmptyMap == [k \in {} |-> Null]

\* value[key] read with a string key: the entry of an object, Null for a
\* missing key and for every value that is not an object (also an array)
IndexStr(v, k) ==
    IF v.t = "obj" /\ k \in DOMAIN v.o THEN v.o[k] ELSE Null

\* value[key] = x with a string key: Null becomes an object, an object gets
\* the entry inserted or overwritten, anything else panics
IndexAssign(v, k, x) ==
    IF v.t = "null" THEN [ok |-> TRUE, val |-> Obj(k :> x)]
    ELSE IF v.t = "obj"
         THEN [ok |-> TRUE,
               val |-> Obj([kk \in DOMAIN v.o \cup {k} |->
                               IF kk = k THEN x ELSE v.o[kk]])]
         ELSE [ok |-> FALSE]

\* Value::as_str
AsStr(v) == IF v.t = "str" THEN [some |-> TRUE, val |-> v.s] ELSE [some |-> FALSE]

\* first character of the strings the model uses ("" has none)
FirstChar(s) ==
    CASE s = "" -> ""
      [] s \in {"_design/v", "_id", "_rev"} -> "_"
      [] s \in {"id1", "id2", "id3"} -> "i"
      [] s \in {"d1", "d2"} -> "d"
      [] s \in {"r1", "r2"} -> "r"
      [] OTHER -> "x"

\* str::starts_with('_')
StartsWithUnderscore(s) == FirstChar(s) = "_"

(* ------------------------------ json_extr! ----------------------------- *)

\* json_extr!(v) as String
ExtrString(v) ==
    IF v.t = "str" THEN [ok |-> TRUE, val |-> v.s] ELSE [ok |-> FALSE]

\* json_extr!(v) as Option<String>
ExtrOptString(v) ==
    IF v.t = "null" THEN [ok |-> TRUE, some |-> FALSE]
    ELSE IF v.t = "str" THEN [ok |-> TRUE, some |-> TRUE, val |-> v.s]
    ELSE [ok |-> FALSE]

\* json_extr!(v) as Vec<Value>
ExtrVec(v) ==
    IF v.t = "arr" THEN [ok |-> TRUE, val |-> v.a] ELSE [ok |-> FALSE]

\* json_extr!(v) as Option<u32>
ExtrOptU32(v) ==
    IF v.t = "null" THEN [ok |-> TRUE, some |-> FALSE]
    ELSE IF v.t = "num" /\ v.n >= 0 THEN [ok |-> TRUE, some |-> TRUE, val |-> v.n]
    ELSE [ok |-> FALSE]

\* json_extr!(v) as Value
ExtrValue(v) == [ok |-> TRUE, val |-> v]

(* ------------------------------- Document ------------------------------ *)

NoDoc == [kind |-> "none"]

Document(id, rev, doc) == [_id |-> id, _rev |-> rev, doc |-> doc]

\* Document::new that extracts only _id and takes an empty revision
DocumentNewIdOnly(doc) ==
    LET id == ExtrString(IndexStr(doc, "_id"))
    IN  IF id.ok
        THEN [ok |-> TRUE, val |-> Document(id.val, "", doc)]
        ELSE [ok |-> FALSE]

\* Document::new
DocumentNew(doc) ==
    LET id  == ExtrString(IndexStr(doc, "_id"))
        rev == ExtrString(IndexStr(doc, "_rev"))
    IN  IF id.ok /\ rev.ok
        THEN [ok |-> TRUE, val |-> Document(id.val, rev.val, doc)]
        ELSE [ok |-> FALSE]

\* Document::get_data
GetData(d) == d.doc

\* Document::get_keys
GetKeys(d) == IF d.doc.t = "obj" THEN DOMAIN d.doc.o ELSE {}

\* Index for Document
DocIndex(d, k) == IndexStr(d.doc, k)

\* an indexed write that keeps an entry the payload already has
DocIndexAssignKeep(d, k, v) ==
    IF d.doc.t = "obj" /\ k \in DOMAIN d.doc.o
    THEN [ok |-> TRUE, val |-> d]
    ELSE LET r == IndexAssign(d.doc, k, v)
         IN  IF r.ok THEN [ok |-> TRUE, val |-> [d EXCEPT !.doc = r.val]]
             ELSE [ok |-> FALSE]

\* IndexMut for Document, used as self[k] = v
DocIndexAssign(d, k, v) ==
    LET r == IndexAssign(d.doc, k, v)
    IN  IF r.ok THEN [ok |-> TRUE, val |-> [d EXCEPT !.doc = r.val]]
        ELSE [ok |-> FALSE]

\* the merge loop without the "_id" | "_rev" arm
RECURSIVE MergeEntriesNoSkip(_, _, _)
MergeEntriesNoSkip(d, obj, keys) ==
    IF keys = {} THEN [ok |-> TRUE, val |-> d]
    ELSE LET k == CHOOSE kk \in keys : TRUE
             r == IndexAssign(d.doc, k, obj[k])
         IN  IF r.ok
             THEN MergeEntriesNoSkip([d EXCEPT !.doc = r.val], obj, keys \ {k})
             ELSE [ok |-> FALSE]

\* the loop of Document::merge over the entries of the incoming object
RECURSIVE MergeEntries(_, _, _)
MergeEntries(d, obj, keys) ==
    IF keys = {} THEN [ok |-> TRUE, val |-> d]
    ELSE LET k    == CHOOSE kk \in keys : TRUE
             rest == keys \ {k}
         IN  IF k \in {"_id", "_rev"}
             THEN MergeEntries(d, obj, rest)
             ELSE LET r == DocIndexAssign(d, k, obj[k])
                  IN  IF r.ok THEN MergeEntries(r.val, obj, rest)
                      ELSE [ok |-> FALSE]

\* Document::merge
DocMerge(d, doc) ==
    IF doc.t = "obj" THEN MergeEntries(d, doc.o, DOMAIN doc.o)
    ELSE [ok |-> TRUE, val |-> d]

\* the ids populate asks the database for
PopulateIds(val) ==
    LET arr == IF val.t = "arr" THEN val.a ELSE <<>>
    IN  [i \in 1..Len(arr) |-> IF AsStr(arr[i]).some THEN AsStr(arr[i]).val ELSE ""]

\* the closure of filter_map in populate: does the fetched value d stay
PopulateKeeps(val, d) ==
    LET did == AsStr(IndexStr(d, "_id"))
    IN  IF ~did.some THEN FALSE
        ELSE IndexStr(val, did.val) # Null

RECURSIVE FilterMap(_, _)
FilterMap(val, data) ==
    IF data = <<>> THEN <<>>
    ELSE IF PopulateKeeps(val, Head(data))
         THEN <<Head(data)>> \o FilterMap(val, Tail(data))
         ELSE FilterMap(val, Tail(data))

\* populate that empties the field when the fetch fails
PopulateClearsOnErr(d, field, fetch) ==
    LET val == IndexStr(d.doc, field)
    IN  IF val = Null
        THEN [ok |-> TRUE, val |-> d, fetched |-> FALSE, ids |-> <<>>]
        ELSE LET data == IF fetch.ok THEN fetch.val ELSE <<>>
                 r    == IndexAssign(d.doc, field, Arr(FilterMap(val, data)))
             IN  IF r.ok
                 THEN [ok |-> TRUE, val |-> [d EXCEPT !.doc = r.val], fetched |-> TRUE,
                       ids |-> PopulateIds(val)]
                 ELSE [ok |-> FALSE]

\* populate without the early return on Value::Null
PopulateNoNullReturn(d, field, fetch) ==
    LET val == IndexStr(d.doc, field)
    IN  IF fetch.ok
        THEN LET r == IndexAssign(d.doc, field, Arr(FilterMap(val, fetch.val)))
             IN  IF r.ok
                 THEN [ok |-> TRUE, val |-> [d EXCEPT !.doc = r.val], fetched |-> TRUE,
                       ids |-> PopulateIds(val)]
                 ELSE [ok |-> FALSE]
        ELSE [ok |-> TRUE, val |-> d, fetched |-> TRUE, ids |-> PopulateIds(val)]

\* Document::populate; fetch is the outcome of db.get_bulk(ids).await mapped
\* through get_data: [ok |-> FALSE] or [ok |-> TRUE, val |-> data].  The
\* result tells whether the bulk fetch was performed.
Populate(d, field, fetch) ==
    LET val == DocIndex(d, field)
    IN  IF val = Null
        THEN [ok |-> TRUE, val |-> d, fetched |-> FALSE, ids |-> <<>>]
        ELSE IF fetch.ok
             THEN LET r == DocIndexAssign(d, field, Arr(FilterMap(val, fetch.val)))
                  IN  IF r.ok
                      THEN [ok |-> TRUE, val |-> r.val, fetched |-> TRUE,
                            ids |-> PopulateIds(val)]
                      ELSE [ok |-> FALSE]
             ELSE [ok |-> TRUE, val |-> d, fetched |-> TRUE, ids |-> PopulateIds(val)]

(* ------------------------------- inputs -------------------------------- *)

\* an array of foreign ids and an object keyed by a foreign id
IdArr == Arr(<<Str("id1"), Str("id2")>>)

IdObj == Obj([id1 |-> Str("x")])

\* sequences over S of length at most n, no element twice
SeqUpTo(S, n) ==
    {s \in UNION {[1..m -> S] : m \in 0..n} :
        \A i, j \in DOMAIN s : s[i] = s[j] => i = j}

\* the object with the entries of f that are present (Absent marks a key
\* the object does not have)
Absent == [t |-> "absent"]

ObjOf(f) == Obj([k \in {kk \in DOMAIN f : f[kk] # Absent} |-> f[k]])

\* JSON values handed to Document::new
IdentityVals == {Absent, Null, Num(0), Str("d1")}

RevisionVals == {Absent, Null, Num(0), Str("r1")}

Payloads == { [a |-> Num(0), b |-> Num(2)],
              [a |-> IdArr, b |-> Absent],
              [a |-> IdObj, b |-> Null] }

NewInputs ==
    { ObjOf([_id |-> i, _rev |-> r, a |-> p.a, b |-> p.b]) :
        i \in IdentityVals, r \in RevisionVals, p \in Payloads }
    \cup {Null, IdArr}

\* keys and values of indexed writes
WriteKeys == {"_id", "_rev", "a", "b"}

WriteVals == {Null, Str("d2")}

\* JSON values handed to Document::merge
MergeInputs ==
    { Obj([a |-> Num(1)]),
      Obj([a |-> Num(1), _id |-> Str("d2"), _rev |-> Str("r2")]),
      Obj([b |-> IdObj, _id |-> Num(1)]),
      Str("d2") }

\* documents the database can answer a bulk fetch with
FetchDocs ==
    { Obj([_id |-> Str("id1"), _rev |-> Str("r1")]),
      Obj([_id |-> Str("id3"), _rev |-> Str("r1")]),
      Obj([_id |-> Num(1), _rev |-> Str("r1")]) }

FetchOutcomes ==
    {[ok |-> FALSE]} \cup {[ok |-> TRUE, val |-> s] : s \in SeqUpTo(FetchDocs, MaxFetched)}

PopulateFields == {"_id", "a", "b"}

(* ------------------------------- actions ------------------------------- *)

NoColl == [kind |-> "none"]

NoValue == [t |-> "none"]

Init ==
    /\ document = NoDoc
    /\ value = NoValue
    /\ collection = NoColl
    /\ last = [op |-> "init"]

\* let document = Document::new(doc)
NewDocument ==
    /\ last.op = "init"
    /\ \E doc \in NewInputs :
         LET r == DocumentNew(doc)
         IN  /\ document' = IF r.ok THEN r.val ELSE NoDoc
             /\ last' = [op |-> "new", arg |-> doc, pre |-> document,
                         out |-> IF r.ok THEN "ok" ELSE "ExtractionError"]
    /\ UNCHANGED <<value, collection>>

\* document[k] = v
IndexWrite ==
    /\ document # NoDoc
    /\ \E k \in WriteKeys, v \in WriteVals :
         LET r == DocIndexAssign(document, k, v)
         IN  /\ document' = IF r.ok THEN r.val ELSE document
             /\ last' = [op |-> "index_mut", key |-> k, arg |-> v, pre |-> document,
                         out |-> IF r.ok THEN "ok" ELSE "panic"]
    /\ UNCHANGED <<value, collection>>

\* document.merge(doc)
Merge ==
    /\ document # NoDoc
    /\ \E doc \in MergeInputs :
         LET r == DocMerge(document, doc)
         IN  /\ document' = IF r.ok THEN r.val ELSE document
             /\ last' = [op |-> "merge", arg |-> doc, pre |-> document,
                         out |-> IF r.ok THEN "ok" ELSE "panic"]
    /\ UNCHANGED <<value, collection>>

\* document.populate(field, db).await
PopulateStep ==
    /\ document # NoDoc
    /\ \E field \in PopulateFields, fetch \in FetchOutcomes :
         LET r == Populate(document, field, fetch)
         IN  /\ document' = IF r.ok THEN r.val ELSE document
             /\ last' = IF r.ok
                        THEN [op |-> "populate", key |-> field, pre |-> document,
                              fetched |-> r.fetched, ids |-> r.ids,
                              arg |-> IF r.fetched THEN fetch ELSE Null,
                              out |-> "ok"]
                        ELSE [op |-> "populate", key |-> field, pre |-> document,
                              fetched |-> TRUE, arg |-> fetch, out |-> "panic"]
    /\ UNCHANGED <<value, collection>>

Next == NewDocument \/ IndexWrite \/ Merge \/ PopulateStep

Spec == Init /\ [][Next]_vars

(* -------------------- TypedCouchDocument for Value --------------------- *)

\* get_id
ValueGetId(v) == ExtrString(IndexStr(v, "_id"))

\* get_rev
ValueGetRev(v) == ExtrString(IndexStr(v, "_rev"))

\* Map::insert on as_object_mut()
MapInsert(v, k, x) ==
    IF v.t = "obj"
    THEN Obj([kk \in DOMAIN v.o \cup {k} |-> IF kk = k THEN x ELSE v.o[kk]])
    ELSE v

\* set_id
ValueSetId(v, id) == MapInsert(v, "_id", Str(id))

\* set_rev
ValueSetRev(v, rev) == MapInsert(v, "_rev", Str(rev))

\* merge that copies the id and forgets the revision
ValueMergeIdOnly(v, other) ==
    LET id == ValueGetId(other)
    IN  IF ~id.ok THEN [ok |-> FALSE, val |-> v]
        ELSE [ok |-> ValueGetRev(other).ok, val |-> ValueSetId(v, id.val)]

\* merge: self.set_id(&other.get_id()); self.set_rev(&other.get_rev())
ValueMerge(v, other) ==
    LET id == ValueGetId(other)
    IN  IF ~id.ok THEN [ok |-> FALSE, val |-> v]
        ELSE LET v1  == ValueSetId(v, id.val)
                 rev == ValueGetRev(other)
             IN  IF ~rev.ok THEN [ok |-> FALSE, val |-> v1]
                 ELSE [ok |-> TRUE, val |-> ValueSetRev(v1, rev.val)]

ValueInputs ==
    { Null, Str("x"), IdArr, Obj(EmptyMap),
      Obj([a |-> Num(0)]),
      Obj([_id |-> Str("d1"), _rev |-> Str("r1"), a |-> Num(0), b |-> IdArr]),
      Obj([_id |-> Num(1), _rev |-> Null]) }

OtherInputs ==
    { Obj([_id |-> Str("d2"), _rev |-> Str("r2")]),
      Obj([_id |-> Str("id1"), _rev |-> Str("r1"), a |-> Num(5)]),
      Obj([_id |-> Str("d2")]),
      Obj([_rev |-> Str("r2")]),
      Null }

IdInputs == {"d1", "d2"}

RevInputs == {"r1", "r2"}

\* let mut value = json!(...)
NewValue ==
    /\ last.op = "init"
    /\ \E v \in ValueInputs :
         /\ value' = v
         /\ last' = [op |-> "value", arg |-> v, pre |-> value, out |-> "ok"]
    /\ UNCHANGED <<document, collection>>

\* value.set_id(id)
SetId ==
    /\ value # NoValue
    /\ \E id \in IdInputs :
         /\ value' = ValueSetId(value, id)
         /\ last' = [op |-> "set_id", arg |-> id, pre |-> value, out |-> "ok"]
    /\ UNCHANGED <<document, collection>>

\* value.set_rev(rev)
SetRev ==
    /\ value # NoValue
    /\ \E rev \in RevInputs :
         /\ value' = ValueSetRev(value, rev)
         /\ last' = [op |-> "set_rev", arg |-> rev, pre |-> value, out |-> "ok"]
    /\ UNCHANGED <<document, collection>>

\* value.merge(other)
MergeValue ==
    /\ value # NoValue
    /\ \E other \in OtherInputs :
         LET r == ValueMerge(value, other)
         IN  /\ value' = r.val
             /\ last' = [op |-> "value_merge", arg |-> other, pre |-> value,
                         out |-> IF r.ok THEN "ok" ELSE "ExtractionError"]
    /\ UNCHANGED <<document, collection>>

NextValue == NewValue \/ SetId \/ SetRev \/ MergeValue

SpecValue == Init /\ [][NextValue]_vars

(* -------------------------- DocumentCollection ------------------------- *)

None == [some |-> FALSE]

Some(x) == [some |-> TRUE, val |-> x]

\* DocumentCollectionItem::new
ItemNew(doc) == [id |-> doc._id, doc |-> doc]

\* the filter closure without the check of the reserved prefix
RowFilterNoPrefix(d) ==
    LET maybe_err == ExtrOptString(IndexStr(d, "error"))
    IN  IF ~maybe_err.ok THEN [ok |-> FALSE]
        ELSE IF maybe_err.some THEN [ok |-> TRUE, keep |-> FALSE]
        ELSE [ok |-> ExtrString(IndexStr(IndexStr(d, "doc"), "_id")).ok, keep |-> TRUE]

\* the filter closure of DocumentCollection::new
RowFilter(d) ==
    LET maybe_err == ExtrOptString(IndexStr(d, "error"))
    IN  IF ~maybe_err.ok THEN [ok |-> FALSE]
        ELSE IF maybe_err.some THEN [ok |-> TRUE, keep |-> FALSE]
        ELSE LET id == ExtrString(IndexStr(IndexStr(d, "doc"), "_id"))
             IN  IF ~id.ok THEN [ok |-> FALSE]
                 ELSE [ok |-> TRUE, keep |-> ~StartsWithUnderscore(id.val)]

\* the map closure of DocumentCollection::new
RowMap(d) ==
    LET r == DocumentNew(ExtrValue(IndexStr(d, "doc")).val)
    IN  IF r.ok THEN [ok |-> TRUE, val |-> ItemNew(r.val)] ELSE [ok |-> FALSE]

\* rows.into_iter().filter(..).map(..).collect()
RECURSIVE CollectItems(_)
CollectItems(rows) ==
    IF rows = <<>> THEN [ok |-> TRUE, val |-> <<>>]
    ELSE LET f == RowFilter(Head(rows))
         IN  IF ~f.ok THEN [ok |-> FALSE]
             ELSE IF ~f.keep THEN CollectItems(Tail(rows))
             ELSE LET m == RowMap(Head(rows))
                  IN  IF ~m.ok THEN [ok |-> FALSE]
                      ELSE LET rest == CollectItems(Tail(rows))
                           IN  IF ~rest.ok THEN [ok |-> FALSE]
                               ELSE [ok |-> TRUE, val |-> <<m.val>> \o rest.val]

\* DocumentCollection::new
CollectionNew(doc) ==
    LET rows == ExtrVec(IndexStr(doc, "rows"))
    IN  IF ~rows.ok THEN [ok |-> FALSE]
        ELSE LET items  == CollectItems(rows.val)
                 offset == ExtrOptU32(IndexStr(doc, "offset"))
             IN  IF ~items.ok \/ ~offset.ok THEN [ok |-> FALSE]
                 ELSE [ok |-> TRUE,
                       val |-> [offset |-> IF offset.some THEN Some(offset.val) ELSE None,
                                total_rows |-> Len(items.val),
                                rows |-> items.val,
                                bookmark |-> None]]

\* DocumentCollection::new_from_documents
NewFromDocuments(docs, bookmark) ==
    [offset |-> Some(0),
     total_rows |-> Len(docs),
     rows |-> [i \in 1..Len(docs) |-> ItemNew(docs[i])],
     bookmark |-> bookmark]

\* DocumentCollection::get_data
CollectionGetData(c) == [i \in 1..Len(c.rows) |-> GetData(c.rows[i].doc)]

\* Document::new on each value of a Vec<Value>
RECURSIVE NewDocuments(_)
NewDocuments(data) ==
    IF data = <<>> THEN [ok |-> TRUE, val |-> <<>>]
    ELSE LET d == DocumentNew(Head(data))
         IN  IF ~d.ok THEN [ok |-> FALSE]
             ELSE LET rest == NewDocuments(Tail(data))
                  IN  IF ~rest.ok THEN [ok |-> FALSE]
                      ELSE [ok |-> TRUE, val |-> <<d.val>> \o rest.val]

\* rows of a raw query result
RowErrors == {Absent, Str("not_found"), Num(1)}

RowDocs ==
    { Absent,
      Obj([_id |-> Str("id1"), _rev |-> Str("r1")]),
      Obj([_id |-> Str("id2"), _rev |-> Str("r1")]),
      Obj([_id |-> Str("_design/v"), _rev |-> Str("r1")]),
      Obj([_id |-> Str("id3")]) }

RowInputs == { ObjOf([error |-> e, doc |-> d]) : e \in RowErrors, d \in RowDocs }

\* all sequences over S of length at most n
AllSeqUpTo(S, n) == UNION {[1..m -> S] : m \in 0..n}

\* raw query results; the store reports a total_rows of its own
RawInputs ==
    { ObjOf([rows |-> Arr(rs), total_rows |-> Num(7), offset |-> o]) :
        rs \in AllSeqUpTo(RowInputs, MaxRows), o \in {Absent, Num(1)} }
    \cup {Null}

\* documents a caller holds: freshly constructed, or constructed and then
\* written to through IndexMut
HeldDocuments ==
    LET fresh == { DocumentNew(Obj([_id |-> Str(i), _rev |-> Str("r1")])).val :
                     i \in {"id1", "id2"} }
    IN  fresh \cup { DocIndexAssign(d, "_id", v).val : d \in fresh, v \in {Str("d2"), Null} }

BookmarkInputs == {None, Some("bm")}

\* let collection = DocumentCollection::new(doc)
NewCollection ==
    /\ last.op = "init"
    /\ \E doc \in RawInputs :
         LET r == CollectionNew(doc)
         IN  /\ collection' = IF r.ok THEN r.val ELSE NoColl
             /\ last' = [op |-> "collection_new", arg |-> doc, pre |-> collection,
                         out |-> IF r.ok THEN "ok" ELSE "ExtractionError"]
    /\ UNCHANGED <<document, value>>

\* let collection = DocumentCollection::new_from_documents(docs, bookmark)
NewCollectionFromDocuments ==
    /\ last.op = "init"
    /\ \E docs \in SeqUpTo(HeldDocuments, MaxDocs), bookmark \in BookmarkInputs :
         /\ collection' = NewFromDocuments(docs, bookmark)
         /\ last' = [op |-> "new_from_documents", arg |-> docs, pre |-> collection,
                     out |-> "ok"]
    /\ UNCHANGED <<document, value>>

\* new_from_documents(get_data().map(Document::new), bookmark); the result
\* is kept in last.res
RoundTrip ==
    /\ collection # NoColl
    /\ LET docs == NewDocuments(CollectionGetData(collection))
       IN  last' = IF docs.ok
                   THEN [op |-> "round_trip", pre |-> collection, out |-> "ok",
                         res |-> NewFromDocuments(docs.val, collection.bookmark)]
                   ELSE [op |-> "round_trip", pre |-> collection,
                         out |-> "ExtractionError"]
    /\ UNCHANGED <<document, value, collection>>

NextCollection == NewCollection \/ NewCollectionFromDocuments \/ RoundTrip

SpecCollection == Init /\ [][NextCollection]_vars

(* ------------------------------ properties ----------------------------- *)

FetchedId1 == Obj([_id |-> Str("id1"), _rev |-> Str("r1")])

FetchedId3 == Obj([_id |-> Str("id3"), _rev |-> Str("r1")])

\* C1: populate on a field holding ["id1","id2"], when the bulk fetch answers
\* with the documents id1 and id3, leaves the field holding exactly [id1's
\* document].
C1_PopulateKeepsRequested ==
    ( /\ last.op = "populate"
      /\ last.out = "ok"
      /\ DocIndex(last.pre, last.key) = IdArr
      /\ last.arg = [ok |-> TRUE, val |-> <<FetchedId1, FetchedId3>>] )
    => DocIndex(document, last.key) = Arr(<<FetchedId1>>)

\* C2: Document::merge leaves the struct fields _id and _rev and the
\* payload's own "_id" and "_rev" entries as they were, whatever the
\* incoming value carries.
C2_MergeKeepsIdentity ==
    last.op = "merge" =>
        /\ last.out = "ok"
        /\ document._id = last.pre._id
        /\ document._rev = last.pre._rev
        /\ \A k \in {"_id", "_rev"} :
             /\ (k \in GetKeys(document)) = (k \in GetKeys(last.pre))
             /\ DocIndex(document, k) = DocIndex(last.pre, k)

C2_Witness ==
    /\ last.op = "merge"
    /\ last.arg.t = "obj"
    /\ {"_id", "_rev"} \subseteq DOMAIN last.arg.o
    /\ last.arg.o["_id"] # DocIndex(last.pre, "_id")
    /\ last.arg.o["_rev"] # DocIndex(last.pre, "_rev")
    /\ document # last.pre

\* C3: after Document::merge of a JSON object, every top-level key of the
\* incoming object other than "_id" and "_rev" holds the incoming value, every
\* payload key the incoming object does not have keeps its value, and the
\* payload has no other keys.
C3_MergeOverwrites ==
    (last.op = "merge" /\ last.arg.t = "obj") =>
        LET incoming == last.arg.o
            updated  == DOMAIN incoming \ {"_id", "_rev"}
        IN  /\ last.out = "ok"
            /\ GetKeys(document) = GetKeys(last.pre) \cup updated
            /\ \A k \in updated : document.doc.o[k] = incoming[k]
            /\ \A k \in GetKeys(last.pre) \ DOMAIN incoming :
                 document.doc.o[k] = last.pre.doc.o[k]

C3_Witness ==
    /\ last.op = "merge"
    /\ last.arg = Obj([a |-> Num(1)])
    /\ DocIndex(last.pre, "a") = Num(0)
    /\ DocIndex(last.pre, "b") = Num(2)
    /\ DocIndex(document, "a") = Num(1)
    /\ DocIndex(document, "b") = Num(2)

\* C5: populate whose bulk fetch fails returns normally and leaves the whole
\* document (the field, the other payload fields, _id and _rev) as it was.
C5_PopulateFetchFailure ==
    (last.op = "populate" /\ last.fetched /\ ~last.arg.ok)
        => (last.out = "ok" /\ document = last.pre)

C5_Witness ==
    /\ last.op = "populate"
    /\ last.out = "ok"
    /\ last.fetched
    /\ ~last.arg.ok
    /\ DocIndex(last.pre, last.key) = IdArr
    /\ last.ids = <<"id1", "id2">>

\* C6: populate on a field that is null or absent performs no bulk fetch and
\* leaves the document, its key set included, as it was.
C6_PopulateNullField ==
    (last.op = "populate" /\ DocIndex(last.pre, last.key) = Null) =>
        /\ last.out = "ok"
        /\ ~last.fetched
        /\ document = last.pre
        /\ GetKeys(document) = GetKeys(last.pre)

C6_Witness ==
    /\ last.op = "populate"
    /\ last.key \notin GetKeys(last.pre)
    /\ last.out = "ok"
    /\ ~last.fetched

\* C7: in every state of a constructed Document the struct fields _id and
\* _rev equal the payload's "_id" and "_rev".
C7_IdentityInSync ==
    document # NoDoc =>
        /\ DocIndex(document, "_id") = Str(document._id)
        /\ DocIndex(document, "_rev") = Str(document._rev)

\* C8: Document::new fails with an ExtractionError, and yields no Document,
\* for every JSON object whose "_id" or "_rev" is missing or not a string.
C8_ConstructionFails ==
    ( /\ last.op = "new"
      /\ last.arg.t = "obj"
      /\ \E k \in {"_id", "_rev"} :
           k \notin DOMAIN last.arg.o \/ last.arg.o[k].t # "str" )
    => (last.out = "ExtractionError" /\ document = NoDoc)

C8_Witness ==
    /\ last.op = "new"
    /\ last.arg.t = "obj"
    /\ "_id" \in DOMAIN last.arg.o
    /\ last.arg.o["_id"].t = "str"
    /\ "_rev" \notin DOMAIN last.arg.o
    /\ last.out = "ExtractionError"

\* C4: DocumentCollection::new drops the rows with a non-null error and the
\* rows whose document's _id starts with '_' (a row that is both once), keeps
\* the other rows in input order, and sets total_rows to their number; it
\* yields a collection whenever every error is a string or null and every
\* other row embeds a document with string _id and _rev.
C4_CollectionRows ==
    (last.op = "collection_new" /\ IndexStr(last.arg, "rows").t = "arr") =>
        LET rows     == last.arg.o.rows.a
            IsErr(d) == IndexStr(d, "error") # Null
            DocId(d) == IndexStr(IndexStr(d, "doc"), "_id")
            IsRes(d) == DocId(d).t = "str" /\ StartsWithUnderscore(DocId(d).s)
            N        == Len(rows)
            M        == Cardinality({i \in 1..N : IsErr(rows[i])})
            K        == Cardinality({i \in 1..N : IsRes(rows[i])})
            Both     == Cardinality({i \in 1..N : IsErr(rows[i]) /\ IsRes(rows[i])})
            kept     == SelectSeq(rows, LAMBDA d : ~IsErr(d) /\ ~IsRes(d))
            WellFormed ==
                \A i \in 1..N :
                    /\ IndexStr(rows[i], "error").t \in {"null", "str"}
                    /\ (~IsErr(rows[i]) /\ ~IsRes(rows[i])) =>
                         /\ DocId(rows[i]).t = "str"
                         /\ IndexStr(IndexStr(rows[i], "doc"), "_rev").t = "str"
        IN  /\ WellFormed => last.out = "ok"
            /\ last.out = "ok" =>
                 /\ Len(collection.rows) = N - (M + K - Both)
                 /\ collection.total_rows = N - (M + K - Both)
                 /\ Len(kept) = Len(collection.rows)
                 /\ \A i \in 1..Len(kept) :
                      /\ collection.rows[i].doc.doc = kept[i].o.doc
                      /\ collection.rows[i].id = kept[i].o.doc.o["_id"].s
                      /\ collection.rows[i].doc._id = collection.rows[i].id

C4_Witness ==
    /\ last.op = "collection_new"
    /\ last.out = "ok"
    /\ Len(last.arg.o.rows.a) = 3
    /\ \E i \in 1..3 :
         /\ IndexStr(last.arg.o.rows.a[i], "error") # Null
         /\ IndexStr(IndexStr(last.arg.o.rows.a[i], "doc"), "_id") = Str("_design/v")
    /\ collection.total_rows = 2
    /\ collection.rows[1].id = "id2"
    /\ collection.rows[2].id = "id1"

\* C9: get_data(), Document::new on every value and new_from_documents
\* reproduce the collection's sequence of ids, as item.id and as item.doc._id.
C9_RoundTripIds ==
    last.op = "round_trip" =>
        /\ last.out = "ok"
        /\ Len(last.res.rows) = Len(collection.rows)
        /\ \A i \in 1..Len(collection.rows) :
             /\ last.res.rows[i].id = collection.rows[i].id
             /\ last.res.rows[i].doc._id = collection.rows[i].doc._id

\* C10: merge on a JSON object with an other that has string _id and _rev
\* gives self the other's id and revision and leaves every other key alone;
\* on a value that is not an object, set_id, set_rev and such a merge leave
\* the value as it was and do not fail.
C10_ValueMerge ==
    LET HasIdentity(v) == ValueGetId(v).ok /\ ValueGetRev(v).ok
    IN  /\ ( /\ last.op = "value_merge"
             /\ last.pre.t = "obj"
             /\ HasIdentity(last.arg) ) =>
               /\ last.out = "ok"
               /\ ValueGetId(value) = ValueGetId(last.arg)
               /\ ValueGetRev(value) = ValueGetRev(last.arg)
               /\ DOMAIN value.o = DOMAIN last.pre.o \cup {"_id", "_rev"}
               /\ \A k \in DOMAIN last.pre.o \ {"_id", "_rev"} :
                    value.o[k] = last.pre.o[k]
        /\ ( /\ last.op \in {"set_id", "set_rev", "value_merge"}
             /\ last.pre.t # "obj"
             /\ last.op = "value_merge" => HasIdentity(last.arg) ) =>
               (last.out = "ok" /\ value = last.pre)

C10_Witness ==
    /\ last.op = "value_merge"
    /\ last.pre.t = "obj"
    /\ last.out = "ok"
    /\ ValueGetId(last.pre).ok
    /\ ValueGetId(last.pre) # ValueGetId(last.arg)
    /\ ValueGetRev(last.pre) # ValueGetRev(last.arg)
    /\ "a" \in DOMAIN last.pre.o
    /\ "a" \in DOMAIN last.arg.o
    /\ last.arg.o["a"] # last.pre.o["a"]
    /\ value.o["a"] = last.pre.o["a"]
====
